---------------------------- MODULE Spec2Model ----------------------------
(***************************************************************************)
(* Book browsing widget: src/scripts.js and src/unnamed/part_000, two      *)
(* versions of the page's script.  Either one is the script the page       *)
(* loads; the variable variant says which.  The catalog (data.js: books,   *)
(* authors, genres, BOOKS_PER_PAGE) and the markup (index.html) are not    *)
(* among the sources and are modelled from the specification.             *)
(*                                                                         *)
(* Strings that the code inspects (titles) are sequences of one-character  *)
(* strings, so that trim, toLowerCase and includes are computed.           *)
(*                                                                         *)
(* LoadSpec is the evaluation of the module as written, from the loaded    *)
(* page: its top level throws at line 64, before any listener is           *)
(* registered.  Spec is the behaviour of the listeners of lines 86-207,    *)
(* started in the state the top level is written to leave.  FilterSpec     *)
(* and ThemeSpec call the filter functions and applyTheme directly.        *)
(***************************************************************************)
EXTENDS Integers, Sequences, FiniteSets, TLC

VARIABLES
    variant,        \* "scripts" (src/scripts.js) or "part_000" (src/unnamed/part_000)
    books,          \* data.js: the catalog, an array of book records
    pc,             \* "load": module not yet evaluated; "aborted": its top level threw;
                    \* "ready": its top level ran to the last line
    handlers,       \* the listeners registered by addEventListener
    page,           \* let page (line 3)
    matches,        \* let matches (line 4)
    listItems,      \* children of [data-list-items]: preview elements
    messageShown,   \* [data-list-message] has class list__message_show
    button,         \* [data-list-button]: written by the script?, disabled, count in the label
    style,          \* documentElement.style: --color-dark, --color-light ("" when not set)
    settingsTheme,  \* [data-settings-theme].value
    searchOpen,     \* [data-search-overlay].open
    settingsOpen,   \* [data-settings-overlay].open
    searchFormOpen, \* property open of the element [data-search-form]
    detail,         \* [data-list-active] and the elements the detail overlay shows
    genreOptions,   \* options of [data-search-genres]
    authorOptions,  \* options of [data-search-authors]
    filters,        \* the search form's data at its last submission
    lastEvent,      \* the last UI event dispatched (history)
    ret,            \* return values of the filter functions called directly
    themeCalls      \* applyTheme calls made directly, with the style each left (history)

vars == << variant, books, pc, handlers, page, matches, listItems,
           messageShown, button, style, settingsTheme, searchOpen, settingsOpen,
           searchFormOpen, detail, genreOptions, authorOptions, filters,
           lastEvent, ret, themeCalls >>

----------------------------------------------------------------------------
(* Bounds of the model *)

MaxBooks == 5       \* the catalog has 1..MaxBooks records
MaxPage == 4        \* show-more is clicked while page < MaxPage
MaxDepth == 1       \* a click lands on a preview or on an element up to MaxDepth below it
MaxCalls == 3       \* applyTheme is called directly up to MaxCalls times

----------------------------------------------------------------------------
(* data.js *)

BOOKS_PER_PAGE == 2

AUTHORS == << <<"a1", "Ann">>, <<"a2", "Bob">> >>

GENRES == << <<"g1", "Fantasy">>, <<"g2", "Crime">> >>

TitleOf(i) ==
    CASE i % 5 = 1 -> <<"A", "b">>
      [] i % 5 = 2 -> <<"b", " ", "a">>
      [] i % 5 = 3 -> <<"B">>
      [] i % 5 = 4 -> <<"a", "b">>
      [] OTHER     -> <<"a">>

GenresOf(i) ==
    CASE i % 5 = 1 -> <<"g1">>
      [] i % 5 = 2 -> <<"g1", "g2">>
      [] i % 5 = 3 -> << >>
      [] i % 5 = 4 -> <<"g2">>
      [] OTHER     -> <<"g2", "g1">>

\* One BookRecord; id i stands for the record's id string, image and
\* description for its URL and text, published for its date.
Book(i) ==
    [ id          |-> i,
      title       |-> TitleOf(i),
      author      |-> IF i % 2 = 1 THEN "a1" ELSE "a2",
      image       |-> 100 + i,
      description |-> 200 + i,
      published   |-> [year |-> 2000 + i],
      genres      |-> GenresOf(i) ]

Catalog(n) == [i \in 1..n |-> Book(i)]

\* authors[author]: the property of the object, undefined when absent
Lookup(map, key) ==
    IF \E i \in DOMAIN map : map[i][1] = key
    THEN (CHOOSE p \in {map[i] : i \in DOMAIN map} : p[1] = key)[2]
    ELSE "undefined"

----------------------------------------------------------------------------
(* JavaScript built-ins the code uses *)

Min(a, b) == IF a < b THEN a ELSE b

\* Array.prototype.slice(start, end), 0 <= start
Slice(arr, start, end) ==
    IF start >= Min(end, Len(arr)) THEN << >>
    ELSE SubSeq(arr, start + 1, Min(end, Len(arr)))

LowerChar(c) ==
    CASE c = "A" -> "a"
      [] c = "B" -> "b"
      [] OTHER   -> c

\* String.prototype.toLowerCase
ToLowerCase(s) == [i \in DOMAIN s |-> LowerChar(s[i])]

\* String.prototype.includes
Includes(s, sub) ==
    \E i \in 0..(Len(s) - Len(sub)) : SubSeq(s, i + 1, i + Len(sub)) = sub

RECURSIVE TrimStart(_)
TrimStart(s) ==
    IF s # << >> /\ Head(s) = " " THEN TrimStart(Tail(s)) ELSE s

RECURSIVE TrimEnd(_)
TrimEnd(s) ==
    IF s # << >> /\ s[Len(s)] = " " THEN TrimEnd(SubSeq(s, 1, Len(s) - 1)) ELSE s

\* String.prototype.trim
Trim(s) == TrimEnd(TrimStart(s))

\* Array.prototype.includes
ArrayIncludes(arr, x) == \E i \in DOMAIN arr : arr[i] = x

\* new Date(published).getFullYear()
GetFullYear(published) == published.year

----------------------------------------------------------------------------
(* Rendering *)

\* A preview element: data-preview and what its innerHTML shows.
CreateBookPreviewElement(book) ==
    [ preview |-> book.id,
      image   |-> book.image,
      title   |-> book.title,
      author  |-> Lookup(AUTHORS, book.author) ]

\* A fragment: one preview per record, in order.
Fragment(records) == [i \in DOMAIN records |-> CreateBookPreviewElement(records[i])]

\* renderInitialBooks: the list after the fragment is appended to it
RenderInitialBooks(list, booksToRender) ==
    list \o Fragment(Slice(booksToRender, 0, BOOKS_PER_PAGE))

\* populateDropdown: the options after the fragment is appended
PopulateDropdown(dropdown, options, defaultLabel) ==
    dropdown \o << <<"any", defaultLabel>> >> \o options

\* Faulty slices: the page already rendered; one record too many.
NextPageSliceStale(m, pg) ==
    Slice(m, (pg - 1) * BOOKS_PER_PAGE, pg * BOOKS_PER_PAGE)

NextPageSliceWide(m, pg) ==
    Slice(m, pg * BOOKS_PER_PAGE, (pg + 1) * BOOKS_PER_PAGE + 1)

\* The slice the show-more listener renders.
NextPageSlice(m, pg) ==
    Slice(m, pg * BOOKS_PER_PAGE, (pg + 1) * BOOKS_PER_PAGE)

\* updateShowMoreButton (part_000), with the page it reads
UpdateShowMoreButton(totalBooks, pg) ==
    LET remainingBooks == totalBooks - pg * BOOKS_PER_PAGE
    IN  [ written   |-> TRUE,
          disabled  |-> remainingBooks <= 0,
          remaining |-> IF remainingBooks > 0 THEN remainingBooks ELSE 0 ]

\* The button as the search listener of scripts.js writes it (lines 142-147)
SubmitButton(m, pg) ==
    [ written   |-> TRUE,
      disabled  |-> (Len(m) - (pg * BOOKS_PER_PAGE)) < 1,
      remaining |-> IF (Len(m) - (pg * BOOKS_PER_PAGE)) > 0
                    THEN Len(m) - (pg * BOOKS_PER_PAGE) ELSE 0 ]

----------------------------------------------------------------------------
(* Theme *)

\* Faulty applyTheme: only the night branch writes.
NightOnlyTheme(st, theme) ==
    IF theme = "night"
    THEN [st EXCEPT !.dark = "255, 255, 255", !.light = "10, 10, 20"]
    ELSE st

\* applyTheme: the style object after the two setProperty calls
ApplyTheme(st, theme) ==
    LET isNight == theme = "night"
    IN  [st EXCEPT !.dark  = IF isNight THEN "255, 255, 255" ELSE "10, 10, 20",
                   !.light = IF isNight THEN "10, 10, 20" ELSE "255, 255, 255"]

\* initTheme on a page without inline style; prefersDark is
\* window.matchMedia('(prefers-color-scheme: dark)').matches
InitTheme(prefersDark) ==
    LET theme == IF prefersDark THEN "night" ELSE "day"
    IN  [value |-> theme, style |-> ApplyTheme([dark |-> "", light |-> ""], theme)]

----------------------------------------------------------------------------
(* Filtering *)

\* scripts.js lines 93-98: the loop over book.genres, with its break
RECURSIVE GenreLoop(_, _, _)
GenreLoop(bookGenres, genre, genreMatch) ==
    IF bookGenres = << >> \/ genreMatch THEN genreMatch
    ELSE GenreLoop(Tail(bookGenres), genre,
                   IF Head(bookGenres) = genre THEN TRUE ELSE genreMatch)

\* scripts.js lines 90-107: the loop over books
RECURSIVE FilterLoop(_, _, _)
FilterLoop(bs, f, result) ==
    IF bs = << >> THEN result
    ELSE LET book == Head(bs)
             genreMatch == GenreLoop(book.genres, f.genre, f.genre = "any")
         IN  FilterLoop(Tail(bs), f,
                 IF /\ (Trim(f.title) = << >>
                        \/ Includes(ToLowerCase(book.title), ToLowerCase(f.title)))
                    /\ (f.author = "any" \/ book.author = f.author)
                    /\ genreMatch
                 THEN Append(result, book) ELSE result)

\* Faulty filterBooks: the title is trimmed before it is searched for.
FilterBooksTrimmed(bs, f) ==
    LET Test(book) ==
            /\ f.genre = "any" \/ ArrayIncludes(book.genres, f.genre)
            /\ f.author = "any" \/ book.author = f.author
            /\ Includes(ToLowerCase(book.title), ToLowerCase(Trim(f.title)))
    IN  SelectSeq(bs, Test)

\* part_000 filterBooks
FilterBooks(bs, f) ==
    LET Test(book) ==
            LET matchesGenre  == f.genre = "any" \/ ArrayIncludes(book.genres, f.genre)
                matchesAuthor == f.author = "any" \/ book.author = f.author
                matchesTitle  == \/ Trim(f.title) = << >>
                                 \/ Includes(ToLowerCase(book.title), ToLowerCase(f.title))
            IN  matchesGenre /\ matchesAuthor /\ matchesTitle
    IN  SelectSeq(bs, Test)

----------------------------------------------------------------------------
(* Detail overlay *)

NoAttr == 0     \* dataset.preview of an element without the attribute

\* Faulty displayBookDetails: the author id, not authors[id].
DisplayAuthorId(book) ==
    [ open        |-> TRUE,
      blur        |-> book.image,
      image       |-> book.image,
      title       |-> book.title,
      subtitle    |-> << book.author, GetFullYear(book.published) >>,
      description |-> book.description ]

\* displayBookDetails (part_000), scripts.js lines 200-205
DisplayBookDetails(book) ==
    [ open        |-> TRUE,
      blur        |-> book.image,
      image       |-> book.image,
      title       |-> book.title,
      subtitle    |-> << Lookup(AUTHORS, book.author), GetFullYear(book.published) >>,
      description |-> book.description ]

\* scripts.js lines 188-193: the first record with the id, << >> for null
RECURSIVE FindLoop(_, _, _)
FindLoop(bs, id, result) ==
    IF bs = << >> \/ result # << >> THEN result
    ELSE FindLoop(Tail(bs), id, IF Head(bs).id = id THEN << Head(bs) >> ELSE result)

\* scripts.js lines 184-197: the loop over the event's path
RECURSIVE PathLoop(_, _, _)
PathLoop(pathArray, bs, active) ==
    IF pathArray = << >> \/ active # << >> THEN active
    ELSE LET node == Head(pathArray)
         IN  PathLoop(Tail(pathArray), bs,
                 IF node.preview # NoAttr THEN FindLoop(bs, node.preview, << >>)
                 ELSE active)

\* part_000 line 181: event.target.closest('.preview')?.dataset.preview
ClosestPreview(pathArray) ==
    IF \E i \in DOMAIN pathArray : pathArray[i].cls = "preview"
    THEN pathArray[CHOOSE i \in DOMAIN pathArray :
                       /\ pathArray[i].cls = "preview"
                       /\ \A j \in 1..(i - 1) : pathArray[j].cls # "preview"].preview
    ELSE NoAttr

\* part_000 line 183: books.find, << >> for undefined
Find(bs, id) ==
    IF \E i \in DOMAIN bs : bs[i].id = id
    THEN << bs[CHOOSE i \in DOMAIN bs :
                   bs[i].id = id /\ \A j \in 1..(i - 1) : bs[j].id # id] >>
    ELSE << >>

\* The path of a click: depth elements inside a preview carrying id (none
\* when id is NoAttr), then the list container.
ClickPath(depth, id) ==
    [i \in 1..depth |-> [cls |-> "inner", preview |-> NoAttr]]
    \o (IF id = NoAttr THEN << >> ELSE << [cls |-> "preview", preview |-> id] >>)
    \o << [cls |-> "list__items", preview |-> NoAttr] >>

----------------------------------------------------------------------------
(* The page before the script runs, and the events of its trigger surface *)

Variants == {"scripts", "part_000"}

\* The listeners each file registers: element and event.
ScriptsHandlers ==
    {"search-form:submit", "list-button:click", "list-items:click"}

PartHandlers ==
    {"search-form:submit", "list-button:click", "list-items:click",
     "header-search:click", "header-settings:click",
     "search-cancel:click", "settings-cancel:click"}

Registered(v) == IF v = "scripts" THEN ScriptsHandlers ELSE PartHandlers

\* The UI trigger surface.
Events == PartHandlers \cup {"settings-form:submit"}

Themes == {"day", "night"}

\* What Object.fromEntries(formData).theme is for the search form: a theme
\* when the form has such a field, undefined otherwise.
FormThemes == Themes \cup {"undefined"}

NoStyle == [dark |-> "", light |-> ""]

MarkupButton == [written |-> FALSE, disabled |-> FALSE, remaining |-> 0]

MarkupDetail ==
    [ open |-> FALSE, blur |-> 0, image |-> 0, title |-> << >>,
      subtitle |-> << "", 0 >>, description |-> 0 ]

NoFilters == [genre |-> "any", author |-> "any", title |-> << >>]

Event(type, id) == [type |-> type, id |-> id]

\* Search criteria submitted while browsing.
Criteria ==
    { [genre |-> "any", author |-> "any", title |-> << >>],
      [genre |-> "g1",  author |-> "any", title |-> <<" ">>],
      [genre |-> "any", author |-> "a2",  title |-> <<"B">>],
      [genre |-> "any", author |-> "any", title |-> <<"z">>] }

\* Search criteria the filter functions are called with directly.
AllCriteria ==
    [ genre  : {"any", "g1", "g2", "g3"},
      author : {"any", "a1", "a2", "a3"},
      title  : {<< >>, <<" ">>, <<"a">>, <<"A">>, <<"B">>, <<"a", "b">>,
                <<" ", "a">>, <<"a", " ">>, <<"b", " ">>, <<"z">>} ]

\* What does not depend on how far the script got.
Environment ==
    /\ variant \in Variants
    /\ books \in {Catalog(n) : n \in 1..MaxBooks}
    /\ messageShown = FALSE
    /\ button = MarkupButton
    /\ searchOpen = FALSE
    /\ settingsOpen = FALSE
    /\ searchFormOpen = "undefined"
    /\ detail = MarkupDetail
    /\ filters = NoFilters
    /\ ret = [fn |-> "none", f |-> NoFilters, value |-> << >>]
    /\ themeCalls = << >>

\* The page as loaded, the module not yet evaluated.
LoadInit ==
    /\ Environment
    /\ pc = "load"
    /\ handlers = {}
    /\ page = 0
    /\ matches = << >>
    /\ listItems = << >>
    /\ style = NoStyle
    /\ settingsTheme = "day"
    /\ genreOptions = << >>
    /\ authorOptions = << >>
    /\ lastEvent = Event("none", 0)

\* The state in which the listeners run: lines 3-4, 40, 64-65 (read with the
\* comma between the options and the label), 84, and every addEventListener.
Init ==
    /\ Environment
    /\ pc = "ready"
    /\ handlers = Registered(variant)
    /\ page = 1
    /\ matches = books
    /\ listItems = RenderInitialBooks(<< >>, books)
    /\ \E prefersDark \in BOOLEAN :
           /\ settingsTheme = InitTheme(prefersDark).value
           /\ style = InitTheme(prefersDark).style
    /\ genreOptions = PopulateDropdown(<< >>, GENRES, "All genres")
    /\ authorOptions = PopulateDropdown(<< >>, AUTHORS, "All Authors")
    /\ lastEvent = Event("startup", 0)

----------------------------------------------------------------------------
(* Module evaluation *)

\* The top level of the module, run to its first uncaught throw.  Lines 3-4
\* and 40 run.  Line 64 evaluates its arguments before it calls
\* populateDropdown; the second, genres`All genres`, is a tagged template: a
\* call of genres, which data.js exports as an object, not a function, so
\* it throws a TypeError.  Lines 65-207 are not evaluated: no option is
\* added, initTheme is not called, no listener is registered.
Startup ==
    /\ pc = "load"
    /\ page' = 1
    /\ matches' = books
    /\ listItems' = RenderInitialBooks(listItems, books)
    /\ pc' = "aborted"
    /\ lastEvent' = Event("startup", 0)
    /\ UNCHANGED << variant, books, handlers, style, settingsTheme,
                    genreOptions, authorOptions, messageShown, button, searchOpen,
                    settingsOpen, searchFormOpen, detail, filters, ret, themeCalls >>

\* An event no listener is registered for: nothing of the script runs.
Unhandled(e) ==
    /\ pc # "load"
    /\ e \notin handlers
    /\ lastEvent' = Event(e, 0)
    /\ UNCHANGED << variant, books, pc, handlers, page, matches,
                    listItems, messageShown, button, style, settingsTheme,
                    searchOpen, settingsOpen, searchFormOpen, detail,
                    genreOptions, authorOptions, filters, ret, themeCalls >>

\* The user picks a theme in the settings form's select.
SelectTheme(t) ==
    /\ pc # "load"
    /\ settingsTheme' = t
    /\ lastEvent' = Event("settings-theme:change", 0)
    /\ UNCHANGED << variant, books, pc, handlers, page, matches,
                    listItems, messageShown, button, style,
                    searchOpen, settingsOpen, searchFormOpen, detail,
                    genreOptions, authorOptions, filters, ret, themeCalls >>

----------------------------------------------------------------------------
(* Listeners *)

\* scripts.js lines 86-151: submit on [data-search-form]
SearchSubmitScripts(f) ==
    /\ pc = "ready" /\ variant = "scripts"
    /\ "search-form:submit" \in handlers
    /\ LET result == FilterLoop(books, f, << >>)
       IN  /\ page' = 1
           /\ matches' = result
           /\ messageShown' = (Len(result) < 1)
           /\ listItems' = Fragment(Slice(result, 0, BOOKS_PER_PAGE))
           /\ button' = SubmitButton(result, 1)
    /\ searchOpen' = FALSE
    /\ filters' = f
    /\ lastEvent' = Event("search-form:submit", 0)
    /\ UNCHANGED << variant, books, pc, handlers, style, settingsTheme,
                    settingsOpen, searchFormOpen, detail, genreOptions,
                    authorOptions, ret, themeCalls >>

\* part_000 lines 86-93: submit on [data-search-form]
SearchSubmitPart(f, theme) ==
    /\ pc = "ready" /\ variant = "part_000"
    /\ "search-form:submit" \in handlers
    /\ style' = ApplyTheme(style, theme)
    /\ searchFormOpen' = "false"
    /\ filters' = f
    /\ lastEvent' = Event("search-form:submit", 0)
    /\ UNCHANGED << variant, books, pc, handlers, page, matches,
                    listItems, messageShown, button, settingsTheme, searchOpen,
                    settingsOpen, detail, genreOptions, authorOptions, ret,
                    themeCalls >>

\* scripts.js lines 153-178: click on [data-list-button].  A disabled button
\* dispatches no click.
ShowMoreScripts ==
    /\ pc = "ready" /\ variant = "scripts"
    /\ "list-button:click" \in handlers
    /\ ~button.disabled
    /\ page < MaxPage
    /\ listItems' = listItems \o Fragment(NextPageSlice(matches, page))
    /\ page' = page + 1
    /\ lastEvent' = Event("list-button:click", 0)
    /\ UNCHANGED << variant, books, pc, handlers, matches,
                    messageShown, button, style, settingsTheme, searchOpen,
                    settingsOpen, searchFormOpen, detail, genreOptions,
                    authorOptions, filters, ret, themeCalls >>

\* part_000 lines 137-145: click on [data-list-button]
ShowMorePart ==
    /\ pc = "ready" /\ variant = "part_000"
    /\ "list-button:click" \in handlers
    /\ ~button.disabled
    /\ page < MaxPage
    /\ listItems' = listItems \o Fragment(NextPageSlice(matches, page))
    /\ page' = page + 1
    /\ button' = UpdateShowMoreButton(Len(matches), page + 1)
    /\ lastEvent' = Event("list-button:click", 0)
    /\ UNCHANGED << variant, books, pc, handlers, matches,
                    messageShown, style, settingsTheme, searchOpen,
                    settingsOpen, searchFormOpen, detail, genreOptions,
                    authorOptions, filters, ret, themeCalls >>

\* scripts.js lines 180-207: click on [data-list-items]
ListClickScripts(depth, id) ==
    /\ pc = "ready" /\ variant = "scripts"
    /\ "list-items:click" \in handlers
    /\ LET active == PathLoop(ClickPath(depth, id), books, << >>)
       IN  IF active # << >>
           THEN detail' = DisplayBookDetails(active[1])
           ELSE UNCHANGED detail
    /\ lastEvent' = Event("list-items:click", id)
    /\ UNCHANGED << variant, books, pc, handlers, page, matches,
                    listItems, messageShown, button, style, settingsTheme,
                    searchOpen, settingsOpen, searchFormOpen, genreOptions,
                    authorOptions, filters, ret, themeCalls >>

\* part_000 lines 180-186: click on [data-list-items]
ListClickPart(depth, id) ==
    /\ pc = "ready" /\ variant = "part_000"
    /\ "list-items:click" \in handlers
    /\ LET bookId == ClosestPreview(ClickPath(depth, id))
           selectedBook == Find(books, bookId)
       IN  IF bookId # NoAttr /\ selectedBook # << >>
           THEN detail' = DisplayBookDetails(selectedBook[1])
           ELSE UNCHANGED detail
    /\ lastEvent' = Event("list-items:click", id)
    /\ UNCHANGED << variant, books, pc, handlers, page, matches,
                    listItems, messageShown, button, style, settingsTheme,
                    searchOpen, settingsOpen, searchFormOpen, genreOptions,
                    authorOptions, filters, ret, themeCalls >>

\* part_000 lines 154-156 and 163-165: the settings overlay's two
\* listeners; to is the value written to its open
SetSettingsOverlay(e, to) ==
    /\ pc = "ready"
    /\ e \in handlers
    /\ settingsOpen' = to
    /\ lastEvent' = Event(e, 0)
    /\ UNCHANGED << variant, books, pc, handlers, page, matches,
                    listItems, messageShown, button, style, settingsTheme,
                    searchOpen, searchFormOpen, detail, genreOptions,
                    authorOptions, filters, ret, themeCalls >>

OpenSettings == SetSettingsOverlay("header-settings:click", TRUE)

CancelSettings == SetSettingsOverlay("settings-cancel:click", FALSE)

\* Submit on the settings form: neither file registers a listener for it.
SettingsSubmit == Unhandled("settings-form:submit")

\* The ids a clicked element can carry: none, a catalog id, an id of no record.
ClickIds == 0..(MaxBooks + 1)

Next ==
    \/ \E f \in Criteria : SearchSubmitScripts(f)
    \/ \E f \in Criteria, t \in FormThemes : SearchSubmitPart(f, t)
    \/ ShowMoreScripts
    \/ ShowMorePart
    \/ \E d \in 0..MaxDepth, id \in ClickIds : ListClickScripts(d, id)
    \/ \E d \in 0..MaxDepth, id \in ClickIds : ListClickPart(d, id)
    \/ OpenSettings
    \/ CancelSettings
    \/ \E t \in Themes : SelectTheme(t)
    \/ SettingsSubmit

Spec == Init /\ [][Next]_vars

LoadNext ==
    \/ Startup
    \/ \E t \in Themes : SelectTheme(t)
    \/ \E e \in Events : Unhandled(e)

LoadSpec == LoadInit /\ [][LoadNext]_vars

----------------------------------------------------------------------------
(* The filter functions and applyTheme, called directly *)

\* The filter loop of scripts.js lines 90-107 run on criteria f.  One call
\* per run: the functions read books and f only.
CallFilterLoop(f) ==
    /\ ret.fn = "none"
    /\ ret' = [fn |-> "loop", f |-> f, value |-> FilterLoop(books, f, << >>)]
    /\ UNCHANGED << variant, books, pc, handlers, page, matches, listItems,
                    messageShown, button, style, settingsTheme, searchOpen,
                    settingsOpen, searchFormOpen, detail, genreOptions,
                    authorOptions, filters, lastEvent, themeCalls >>

\* filterBooks(f) of part_000
CallFilterBooks(f) ==
    /\ ret.fn = "none"
    /\ ret' = [fn |-> "filterBooks", f |-> f, value |-> FilterBooks(books, f)]
    /\ UNCHANGED << variant, books, pc, handlers, page, matches, listItems,
                    messageShown, button, style, settingsTheme, searchOpen,
                    settingsOpen, searchFormOpen, detail, genreOptions,
                    authorOptions, filters, lastEvent, themeCalls >>

FilterNext ==
    \/ \E f \in AllCriteria : CallFilterLoop(f)
    \/ \E f \in AllCriteria : CallFilterBooks(f)

FilterSpec == Init /\ [][FilterNext]_vars

\* applyTheme(theme)
CallApplyTheme(theme) ==
    /\ Len(themeCalls) < MaxCalls
    /\ style' = ApplyTheme(style, theme)
    /\ themeCalls' = Append(themeCalls,
                       [theme |-> theme, before |-> style,
                        after |-> ApplyTheme(style, theme)])
    /\ UNCHANGED << variant, books, pc, handlers, page, matches, listItems,
                    messageShown, button, settingsTheme, searchOpen,
                    settingsOpen, searchFormOpen, detail, genreOptions,
                    authorOptions, filters, lastEvent, ret >>

ThemeNext == \E t \in FormThemes : CallApplyTheme(t)

ThemeSpec == Init /\ [][ThemeNext]_vars

----------------------------------------------------------------------------
(* Claims *)

Max(a, b) == IF a > b THEN a ELSE b

Range(seq) == {seq[i] : i \in DOMAIN seq}

\* The predicate of the specification's Filter Engine on one record.
Selected(record, f) ==
    /\ f.genre = "any" \/ f.genre \in Range(record.genres)
    /\ f.author = "any" \/ f.author = record.author
    /\ Trim(f.title) = << >> \/ Includes(ToLowerCase(record.title), ToLowerCase(f.title))

\* r is the subsequence of bs, in the order of bs, of exactly the records
\* Selected by f.
IsFilterResult(r, bs, f) ==
    LET idx == {i \in DOMAIN bs : Selected(bs[i], f)}
        Nth(k) == CHOOSE i \in idx : Cardinality({j \in idx : j <= i}) = k
    IN  /\ Len(r) = Cardinality(idx)
        /\ \A k \in DOMAIN r : r[k] = bs[Nth(k)]

Remaining == Len(matches) - BOOKS_PER_PAGE * page

PreviewIds(list) == {list[i].preview : i \in DOMAIN list}

(* C1: after any sequence of filter submissions and show-more clicks the
   list container holds min(BOOKS_PER_PAGE * page, matches.length) previews. *)
C1_RenderedCount ==
    Len(listItems) = Min(BOOKS_PER_PAGE * page, Len(matches))

\* scripts.js: a submission that keeps three records, then one click.
C1_Witness ==
    /\ variant = "scripts"
    /\ filters.genre = "g1"
    /\ lastEvent.type = "list-button:click"
    /\ page = 2
    /\ Len(matches) = 3
    /\ Len(listItems) = 3

(* C2: every search-form submission sets page to 1 and matches to the filter
   result of the submitted criteria; matches is always the filter result of
   the criteria applied last (the whole catalog before any submission). *)
C2_SubmitResets ==
    /\ IsFilterResult(matches, books, filters)
    /\ lastEvent.type = "search-form:submit" => page = 1

(* C3: for every criteria the result of either filter implementation is the
   subsequence of the catalog, in catalog order, of exactly the records the
   three predicates select; criteria any/any/'' return the whole catalog. *)
C3_FilterResult ==
    ret.fn # "none" =>
        /\ IsFilterResult(ret.value, books, ret.f)
        /\ ret.f = NoFilters => ret.value = books

\* filterBooks with a title that trimming changes, keeping some records only.
C3_Witness ==
    /\ ret.fn = "filterBooks"
    /\ ret.f = [genre |-> "any", author |-> "any", title |-> <<" ", "a">>]
    /\ Len(books) = 5
    /\ ret.value = << books[2] >>

(* C4: after the initial render, every filter submission and every show-more
   click, the show-more control is disabled iff remaining <= 0 and its label
   shows max(remaining, 0). *)
C4_ShowMoreControl ==
    lastEvent.type \in {"startup", "search-form:submit", "list-button:click"} =>
        /\ button.written
        /\ button.disabled = (Remaining <= 0)
        /\ button.remaining = Max(Remaining, 0)

(* C5: after a filter submission the empty-state message is visible iff the
   filter result is empty, and then the list holds no preview. *)
C5_EmptyState ==
    lastEvent.type = "search-form:submit" =>
        LET empty == \A i \in DOMAIN books : ~Selected(books[i], filters)
        IN  /\ messageShown = empty
            /\ empty => Len(listItems) = 0

\* The colour tokens of a theme.
C6_Tokens(theme) ==
    IF theme = "night"
    THEN [dark |-> "255, 255, 255", light |-> "10, 10, 20"]
    ELSE [dark |-> "10, 10, 20", light |-> "255, 255, 255"]

(* C6: submitting the settings form applies the theme selected in it and
   closes the settings overlay. *)
C6_SettingsSubmit ==
    lastEvent.type = "settings-form:submit" =>
        /\ style = C6_Tokens(settingsTheme)
        /\ ~settingsOpen

(* C7: a click in the list on a preview carrying the id of a catalog record
   opens the detail overlay with that record's image, title, subtitle
   'authorName (publicationYear)' and description; a click outside any
   preview or on an id of no record leaves the detail overlay as it was; no
   click on the list changes page or matches. *)
C7_ListClick ==
    [][ lastEvent'.type = "list-items:click" =>
          /\ page' = page
          /\ matches' = matches
          /\ IF \E r \in Range(books) : r.id = lastEvent'.id
             THEN LET r == CHOOSE b \in Range(books) : b.id = lastEvent'.id
                  IN  detail' = [ open        |-> TRUE,
                                  blur        |-> r.image,
                                  image       |-> r.image,
                                  title       |-> r.title,
                                  subtitle    |-> << Lookup(AUTHORS, r.author),
                                                     r.published.year >>,
                                  description |-> r.description ]
             ELSE detail' = detail ]_vars

\* scripts.js: a click on a preview of record 4 while matches does not hold it.
C7_Witness ==
    /\ variant = "scripts"
    /\ Len(books) >= 4
    /\ lastEvent = Event("list-items:click", 4)
    /\ 4 \notin {matches[i].id : i \in DOMAIN matches}
    /\ Len(matches) > 0
    /\ detail.open
    /\ detail.title = books[4].title
    /\ detail.subtitle = << "Bob", 2004 >>

(* C8: the colour tokens after applyTheme(t) depend on t only (so a second
   applyTheme(t) changes nothing), and applyTheme('night') followed by
   applyTheme('day') gives the day values again. *)
C8_ThemePure ==
    /\ \A i, j \in DOMAIN themeCalls :
           themeCalls[i].theme = themeCalls[j].theme =>
               themeCalls[i].after = themeCalls[j].after
    /\ \A i \in DOMAIN themeCalls :
           (i > 1 /\ themeCalls[i - 1].theme = "night" /\ themeCalls[i].theme = "day") =>
               themeCalls[i].after = [dark |-> "10, 10, 20", light |-> "255, 255, 255"]

\* day, night, day: the night call changed the tokens, the day call restored them.
C8_Witness ==
    /\ Len(themeCalls) = 3
    /\ themeCalls[1].theme = "day"
    /\ themeCalls[2].theme = "night"
    /\ themeCalls[3].theme = "day"
    /\ themeCalls[2].after # themeCalls[1].after
    /\ themeCalls[3].after = themeCalls[1].after

(* C9: a show-more click increments page by one, leaves matches as it is and
   appends only records rendered on no earlier page, so no record is in the
   list twice; with matches exhausted it appends nothing. *)
C9_Advance ==
    [][ lastEvent'.type = "list-button:click" =>
          /\ page' = page + 1
          /\ matches' = matches
          /\ Len(listItems') >= Len(listItems)
          /\ SubSeq(listItems', 1, Len(listItems)) = listItems
          /\ \A k \in (Len(listItems) + 1)..Len(listItems') :
                 /\ listItems'[k].preview \notin PreviewIds(listItems)
                 /\ listItems'[k].preview \in {matches[i].id : i \in DOMAIN matches}
          /\ Cardinality(PreviewIds(listItems')) = Len(listItems')
          /\ Remaining <= 0 => listItems' = listItems ]_vars

\* scripts.js: three matches, a second click after they are all rendered.
C9_Witness ==
    /\ lastEvent.type = "list-button:click"
    /\ Len(matches) = 3
    /\ page = 3
    /\ Len(listItems) = 3

(* C10: startup runs to completion: the first page is painted, both dropdowns
   hold the 'any' option followed by one option per map entry, initTheme has
   set the theme selector and the colour tokens, and the listeners are bound,
   so that UI events issued after startup are handled. *)
C10_StartupCompletes ==
    pc # "load" =>
        /\ pc = "ready"
        /\ Len(listItems) = Min(BOOKS_PER_PAGE, Len(books))
        /\ genreOptions = << <<"any", "All genres">> >> \o GENRES
        /\ authorOptions = << <<"any", "All Authors">> >> \o AUTHORS
        /\ style = C6_Tokens(settingsTheme)
        /\ handlers = Registered(variant)

=============================================================================
